---------------------------- MODULE Spec2Model ----------------------------
(***************************************************************************)
(* TradeHub account / session / verification state machine (src/app.py).   *)
(*                                                                         *)
(* State: the persisted user list (data.json), the three process-wide      *)
(* in-memory dictionaries CODE_STORE, VERIFIED_TOKENS and                  *)
(* PENDING_EMAIL_CHANGES, one Flask session per client, and the clock.     *)
(* Every request handler is one action; `last` records the request that    *)
(* was served last together with the HTTP status of its response.          *)
(***************************************************************************)
EXTENDS Integers, Sequences, FiniteSets, TLC

VARIABLES
    users,                  \* content of data.json: a list of user records
    session,                \* session[s]: the 'user_email' of client s, or None
    CODE_STORE,             \* email -> [code, exp]
    VERIFIED_TOKENS,        \* email -> [token, exp]
    PENDING_EMAIL_CHANGES,  \* current email -> [new_email, code, exp]
    now,                    \* time.time()
    issued,                 \* issued[t]: the email token t was issued for (history)
    spent,                  \* tokens a successful reset_password has consumed (history)
    last,                   \* the request served last and its response
    inflight                \* inflight[w]: the request worker thread w is serving

vars == <<users, session, CODE_STORE, VERIFIED_TOKENS, PENDING_EMAIL_CHANGES,
          now, issued, spent, last, inflight>>

---------------------------------------------------------------------------
(* Bounds of the model *)

\* at most this many records in data.json (with unique emails the alphabet
\* Emails limits the list as well)
MaxUsers == 2
\* at most this many tokens are ever issued by verify_code
MaxTokens == 2
\* the clock advances while now < MaxWindows * CODE_TTL_SECONDS
MaxWindows == 1

---------------------------------------------------------------------------
(* Input alphabets *)

None == "None"
NoCode == ""

Emails == {"a@x.com", "b@x.com"}
EmailInputs == Emails \cup {""}
Passwords == {"pw1", "pw2"}
PassInputs == Passwords \cup {""}
Names == {"Ann", "Bob"}
Sessions == {"s1", "s2"}
Workers == {"w1", "w2"}

\* a 6-digit code is a sequence of characters
Code1 == <<"1", "2", "3", "4", "5", "6">>
Code2 == <<"6", "5", "4", "3", "2", "1">>
CodeInputs == {Code1, Code2, <<"1", "2", "3", "4", "5">>,
               <<"1", "2", "3", "4", "5", "x">>, <<>>}

\* the values random.choice can assemble into a 7-character user code
CodeSpace == {"Ez34Als", "Qw12Ert"}

CODE_TTL_SECONDS == 5 * 60
TOKEN_TTL_SECONDS == 5 * 60

---------------------------------------------------------------------------
(* Python dictionaries as functions over their key set *)

\* (mutant) an assignment that keeps the value a key already has
PutKeepingOld(d, k, v) ==
    [x \in (DOMAIN d) \cup {k} |-> IF x \in DOMAIN d THEN d[x] ELSE v]

Put(d, k, v) == [x \in (DOMAIN d) \cup {k} |-> IF x = k THEN v ELSE d[x]]
Del(d, k) == [x \in (DOMAIN d) \ {k} |-> d[x]]
EmptyDict == [x \in {} |-> 0]

---------------------------------------------------------------------------
(* User store helpers *)

\* generate_password_hash / check_password_hash: a stored hash verifies
\* exactly the password it was generated from
generate_password_hash(p) == <<"pbkdf2", p>>
check_password_hash(stored, p) == stored = <<"pbkdf2", p>>

\* _find_user: index of the first record with that email, 0 for None
_find_user(us, email) ==
    IF \E i \in 1..Len(us) : us[i].email = email
    THEN CHOOSE i \in 1..Len(us) :
            /\ us[i].email = email
            /\ \A j \in 1..(i - 1) : us[j].email # email
    ELSE 0

\* (mutant) a code is assigned whether or not the record has one
NeedsCodeAlways(us, i) == i # 0

\* (mutant) the generator returns its first candidate, colliding or not
GenerateCodeWithoutRetry(existing) == CodeSpace

\* _generate_unique_code: the codes the loop can return
_generate_unique_code(existing) == CodeSpace \ existing

ExistingCodes(us) == {us[i].code : i \in 1..Len(us)} \ {NoCode}

\* _ensure_user_code: True iff the record has no code yet
NeedsCode(us, i) == i # 0 /\ us[i].code = NoCode

\* _ensure_user_code with the code the generator returned
_ensure_user_code(us, i, c) ==
    IF NeedsCode(us, i) THEN [us EXCEPT ![i].code = c] ELSE us

\* the codes _ensure_user_code may assign (one dummy when nothing is assigned)
CodeChoices(us, i) ==
    IF NeedsCode(us, i) THEN _generate_unique_code(ExistingCodes(us)) ELSE {NoCode}

\* the loop of _backfill_all_codes from record i on: the lists it can leave
RECURSIVE BackfillFrom(_, _)
BackfillFrom(us, i) ==
    IF i > Len(us)
    THEN {us}
    ELSE UNION {BackfillFrom(_ensure_user_code(us, i, c), i + 1) :
                    c \in CodeChoices(us, i)}

---------------------------------------------------------------------------
(* Transient stores *)

\* the loop body of _purge_expired on one dictionary, at time t
PurgeDict(d, t) == [k \in {x \in DOMAIN d : ~(d[x].exp < t)} |-> d[k]]

\* _purge_expired: what it leaves of each of the three dictionaries; the loop
\* runs over (CODE_STORE, VERIFIED_TOKENS) only
PurgedCodes == PurgeDict(CODE_STORE, now)
PurgedTokens == PurgeDict(VERIFIED_TOKENS, now)
PurgedPending == PENDING_EMAIL_CHANGES

\* the validation `len(code) != 6 or not code.isdigit()` (an empty code included)
IsDigit(ch) == ch \in {"0", "1", "2", "3", "4", "5", "6", "7", "8", "9"}
IsSixDigits(code) == Len(code) = 6 /\ \A k \in 1..Len(code) : IsDigit(code[k])

\* tokens: secrets.token_urlsafe(24) returns a value never returned before and
\* that no client can guess; token t is the t-th one issued
NoToken == 0
BogusToken == -1
TokenInputs == (1..Len(issued)) \cup {NoToken, BogusToken}
FreshToken == Len(issued) + 1

---------------------------------------------------------------------------
(* Worker threads.  app.run serves each request on a thread of its own; a
   thread holds the list it read from data.json in a local variable until it
   writes it back.  status is the answer to the thread's latest request. *)

Idle ==
    [pc |-> "idle", op |-> "", sess |-> None, current |-> None, field |-> "",
     email |-> "", password |-> "", local |-> <<>>, status |-> 0]

\* (mutant) a write that keeps the records the file holds and adds the new ones
WriteMerging(file, us) ==
    file \o SelectSeq(us, LAMBDA u : \A i \in 1..Len(file) : file[i].email # u.email)

\* (mutant) a write that appends the thread's newest record to the file
WriteAppending(file, us) == IF us = <<>> THEN file ELSE Append(file, us[Len(us)])

\* _write_users_list: json.dump replaces the content of data.json
_write_users_list(file, us) == us

---------------------------------------------------------------------------
(* The request served last *)

Req(op, s, e) ==
    [op |-> op, sess |-> s, email |-> e, password |-> "", code |-> <<>>,
     token |-> NoToken, field |-> "", value |-> "", status |-> 0, error |-> "",
     purged |-> FALSE, modified |-> FALSE]

Answer(rq, st, err) == [rq EXCEPT !.status = st, !.error = err]

---------------------------------------------------------------------------
(* Initial state: no data.json, empty dictionaries, no session *)

Init ==
    /\ users = <<>>
    /\ session = [s \in Sessions |-> None]
    /\ CODE_STORE = EmptyDict
    /\ VERIFIED_TOKENS = EmptyDict
    /\ PENDING_EMAIL_CHANGES = EmptyDict
    /\ now = 0
    /\ issued = <<>>
    /\ spent = {}
    /\ last = Req("init", None, "")
    /\ inflight = [w \in Workers |-> Idle]

---------------------------------------------------------------------------
(* Process start: the module-level dictionaries are created empty and
   _backfill_all_codes runs over data.json; sessions live in signed cookies
   and survive *)

_backfill_all_codes ==
    LET changed == \E i \in 1..Len(users) : NeedsCode(users, i)
        rq == [Req("backfill", None, "") EXCEPT !.modified = changed] IN
    /\ users' \in BackfillFrom(users, 1)
    /\ CODE_STORE' = EmptyDict
    /\ VERIFIED_TOKENS' = EmptyDict
    /\ PENDING_EMAIL_CHANGES' = EmptyDict
    /\ last' = Answer(rq, 0, "")
    /\ UNCHANGED <<inflight, session, now, issued, spent>>

---------------------------------------------------------------------------
(* POST /api/storage: registration *)

NewUser(email, password, name) ==
    [email |-> email, pass |-> generate_password_hash(password), name |-> name,
     email_changed |-> FALSE, name_changed |-> FALSE, code |-> NoCode]

\* (mutant) registration without the duplicate check
AccountExistsUnchecked(us, email) == FALSE

\* the duplicate check of api_post_storage
AccountExists(us, email) == \E i \in 1..Len(us) : us[i].email = email

api_post_storage(email, password, name) ==
    LET rq == Req("register", None, email) IN
    IF email = "" \/ password = ""
    THEN /\ last' = Answer(rq, 400, "email and pass are required")
         /\ UNCHANGED <<inflight, users, session, CODE_STORE, VERIFIED_TOKENS,
                        PENDING_EMAIL_CHANGES, now, issued, spent>>
    ELSE IF AccountExists(users, email)
    THEN /\ last' = Answer(rq, 409, "account exists")
         /\ UNCHANGED <<inflight, users, session, CODE_STORE, VERIFIED_TOKENS,
                        PENDING_EMAIL_CHANGES, now, issued, spent>>
    ELSE /\ Len(users) < MaxUsers
         /\ LET appended == Append(users, NewUser(email, password, name)) IN
            \E c \in CodeChoices(appended, Len(appended)) :
                users' = _ensure_user_code(appended, Len(appended), c)
         /\ last' = Answer(rq, 200, "")
         /\ UNCHANGED <<inflight, session, CODE_STORE, VERIFIED_TOKENS,
                        PENDING_EMAIL_CHANGES, now, issued, spent>>

---------------------------------------------------------------------------
(* POST /api/login *)

\* (mutant) every password is accepted
PasswordValidAlways(stored, password) == TRUE

\* the credential check of api_login; the except branch (stored == password)
\* runs only when check_password_hash raises, which it does not on the hashes
\* that registration, reset_password and login_google store
PasswordValid(stored, password) == check_password_hash(stored, password)

api_login(s, email, password) ==
    LET i == _find_user(users, email)
        rq == [Req("login", s, email) EXCEPT !.password = password,
                                             !.modified = NeedsCode(users, i)] IN
    IF email = "" \/ password = ""
    THEN /\ last' = Answer(rq, 400, "")
         /\ UNCHANGED <<inflight, users, session, CODE_STORE, VERIFIED_TOKENS,
                        PENDING_EMAIL_CHANGES, now, issued, spent>>
    ELSE IF i = 0
    THEN /\ last' = Answer(rq, 401, "")
         /\ UNCHANGED <<inflight, users, session, CODE_STORE, VERIFIED_TOKENS,
                        PENDING_EMAIL_CHANGES, now, issued, spent>>
    ELSE /\ \E c \in CodeChoices(users, i) : users' = _ensure_user_code(users, i, c)
         /\ IF ~PasswordValid(users[i].pass, password)
            THEN /\ last' = Answer(rq, 401, "")
                 /\ session' = session
            ELSE /\ last' = Answer(rq, 200, "")
                 /\ session' = [session EXCEPT ![s] = email]
         /\ UNCHANGED <<inflight, CODE_STORE, VERIFIED_TOKENS, PENDING_EMAIL_CHANGES,
                        now, issued, spent>>

---------------------------------------------------------------------------
(* POST /api/request_code *)

api_request_code(email, code) ==
    LET rq == [Req("request_code", None, email) EXCEPT !.code = code] IN
    IF email = "" \/ ~IsSixDigits(code)
    THEN /\ last' = Answer(rq, 400, "")
         /\ UNCHANGED <<inflight, users, session, CODE_STORE, VERIFIED_TOKENS,
                        PENDING_EMAIL_CHANGES, now, issued, spent>>
    ELSE /\ CODE_STORE' = Put(PurgedCodes, email,
                              [code |-> code, exp |-> now + CODE_TTL_SECONDS])
         /\ VERIFIED_TOKENS' = PurgedTokens
         /\ PENDING_EMAIL_CHANGES' = PurgedPending
         /\ last' = [Answer(rq, 200, "") EXCEPT !.purged = TRUE]
         /\ UNCHANGED <<inflight, users, session, now, issued, spent>>

---------------------------------------------------------------------------
(* POST /api/verify_code *)

\* the acceptance test of api_verify_code on the purged code store
CodeAccepted(store, email, code, t) ==
    /\ email \in DOMAIN store
    /\ store[email].code = code
    /\ ~(store[email].exp < t)

\* (mutant) the code stays in the store after use
ConsumeCodeForgotten(store, email) == store

\* `del CODE_STORE[email]`: the used code is removed
ConsumeCode(store, email) == Del(store, email)

api_verify_code(s, email, code) ==
    LET rq == [Req("verify_code", s, email) EXCEPT !.code = code] IN
    IF email = "" \/ code = <<>>
    THEN /\ last' = Answer(rq, 400, "")
         /\ UNCHANGED <<inflight, users, session, CODE_STORE, VERIFIED_TOKENS,
                        PENDING_EMAIL_CHANGES, now, issued, spent>>
    ELSE IF ~CodeAccepted(PurgedCodes, email, code, now)
    THEN /\ CODE_STORE' = PurgedCodes
         /\ VERIFIED_TOKENS' = PurgedTokens
         /\ PENDING_EMAIL_CHANGES' = PurgedPending
         /\ last' = [Answer(rq, 400, "") EXCEPT !.purged = TRUE]
         /\ UNCHANGED <<inflight, users, session, now, issued, spent>>
    ELSE /\ Len(issued) < MaxTokens
         /\ VERIFIED_TOKENS' = Put(PurgedTokens, email,
                [token |-> FreshToken, exp |-> now + TOKEN_TTL_SECONDS])
         /\ issued' = Append(issued, email)
         /\ session' = [session EXCEPT ![s] = email]
         /\ CODE_STORE' = ConsumeCode(PurgedCodes, email)
         /\ PENDING_EMAIL_CHANGES' = PurgedPending
         /\ last' = [Answer(rq, 200, "") EXCEPT !.purged = TRUE,
                                                !.token = FreshToken]
         /\ UNCHANGED <<inflight, users, now, spent>>

---------------------------------------------------------------------------
(* POST /api/reset_password *)

\* (mutant) any token is taken for an email that holds an unexpired one
TokenAcceptedWithoutComparison(store, email, token, t) ==
    /\ email \in DOMAIN store
    /\ ~(store[email].exp < t)

\* the acceptance test of api_reset_password on the purged token store
TokenAccepted(store, email, token, t) ==
    /\ email \in DOMAIN store
    /\ store[email].token = token
    /\ ~(store[email].exp < t)

\* (mutant) the token stays in the store after use
InvalidateTokenForgotten(store, email) == store

\* `del VERIFIED_TOKENS[email]`: the token is invalidated
InvalidateToken(store, email) == Del(store, email)

api_reset_password(email, new_pass, token) ==
    LET rq == [Req("reset_password", None, email) EXCEPT !.token = token]
        i == _find_user(users, email) IN
    IF email = "" \/ new_pass = "" \/ token = NoToken
    THEN /\ last' = Answer(rq, 400, "")
         /\ UNCHANGED <<inflight, users, session, CODE_STORE, VERIFIED_TOKENS,
                        PENDING_EMAIL_CHANGES, now, issued, spent>>
    ELSE IF ~TokenAccepted(PurgedTokens, email, token, now)
    THEN /\ CODE_STORE' = PurgedCodes
         /\ VERIFIED_TOKENS' = PurgedTokens
         /\ PENDING_EMAIL_CHANGES' = PurgedPending
         /\ last' = [Answer(rq, 400, "") EXCEPT !.purged = TRUE]
         /\ UNCHANGED <<inflight, users, session, now, issued, spent>>
    ELSE IF i = 0
    THEN /\ CODE_STORE' = PurgedCodes
         /\ VERIFIED_TOKENS' = PurgedTokens
         /\ PENDING_EMAIL_CHANGES' = PurgedPending
         /\ last' = [Answer(rq, 404, "") EXCEPT !.purged = TRUE]
         /\ UNCHANGED <<inflight, users, session, now, issued, spent>>
    ELSE /\ users' = [users EXCEPT ![i].pass = generate_password_hash(new_pass)]
         /\ CODE_STORE' = PurgedCodes
         /\ VERIFIED_TOKENS' = InvalidateToken(PurgedTokens, email)
         /\ PENDING_EMAIL_CHANGES' = PurgedPending
         /\ spent' = spent \cup {token}
         /\ last' = [Answer(rq, 200, "") EXCEPT !.purged = TRUE]
         /\ UNCHANGED <<inflight, session, now, issued>>

---------------------------------------------------------------------------
(* The session gate of the protected API routes *)

\* (mutant) a route that forgets to look at the session
NotAuthenticatedIgnored(principal) == FALSE

\* `if not current_email: return 401`
NotAuthenticated(principal) == principal = None

---------------------------------------------------------------------------
(* POST /api/request_email_change *)

api_request_email_change(s, new_email, code) ==
    LET current_email == session[s]
        rq == [Req("request_email_change", s, new_email) EXCEPT !.code = code] IN
    IF NotAuthenticated(current_email)
    THEN /\ last' = Answer(rq, 401, "")
         /\ UNCHANGED <<inflight, users, session, CODE_STORE, VERIFIED_TOKENS,
                        PENDING_EMAIL_CHANGES, now, issued, spent>>
    ELSE IF new_email = "" \/ ~IsSixDigits(code)
    THEN /\ last' = Answer(rq, 400, "invalid input")
         /\ UNCHANGED <<inflight, users, session, CODE_STORE, VERIFIED_TOKENS,
                        PENDING_EMAIL_CHANGES, now, issued, spent>>
    ELSE IF _find_user(users, new_email) # 0
    THEN /\ last' = Answer(rq, 409, "email exists")
         /\ UNCHANGED <<inflight, users, session, CODE_STORE, VERIFIED_TOKENS,
                        PENDING_EMAIL_CHANGES, now, issued, spent>>
    ELSE /\ CODE_STORE' = PurgedCodes
         /\ VERIFIED_TOKENS' = PurgedTokens
         /\ PENDING_EMAIL_CHANGES' = Put(PurgedPending, current_email,
                [new_email |-> new_email, code |-> code,
                 exp |-> now + CODE_TTL_SECONDS])
         /\ last' = [Answer(rq, 200, "") EXCEPT !.purged = TRUE]
         /\ UNCHANGED <<inflight, users, session, now, issued, spent>>

---------------------------------------------------------------------------
(* POST /api/confirm_email_change *)

\* (mutant) the expiry of the pending entry is not looked at
PendingAcceptedWithoutExpiry(store, current_email, new_email, code, t) ==
    /\ current_email \in DOMAIN store
    /\ store[current_email].new_email = new_email
    /\ store[current_email].code = code

\* the acceptance test of api_confirm_email_change on the pending entry
PendingAccepted(store, current_email, new_email, code, t) ==
    /\ current_email \in DOMAIN store
    /\ store[current_email].new_email = new_email
    /\ store[current_email].code = code
    /\ ~(store[current_email].exp < t)

\* (mutant) the confirmation does not look for the new email in the store
ConfirmRefusalNoCollisionCheck(us, current_email, new_email) ==
    IF _find_user(us, current_email) = 0 THEN 404 ELSE 0

\* the guards of api_confirm_email_change between the acceptance test and the
\* mutation: 409 on a collision, 404 when the principal has no record, else 0
ConfirmRefusal(us, current_email, new_email) ==
    IF _find_user(us, new_email) # 0 THEN 409
    ELSE IF _find_user(us, current_email) = 0 THEN 404
    ELSE 0

api_confirm_email_change(s, new_email, code) ==
    LET current_email == session[s]
        rq == [Req("confirm_email_change", s, new_email) EXCEPT !.code = code]
        i == _find_user(users, current_email)
        refusal == ConfirmRefusal(users, current_email, new_email) IN
    IF NotAuthenticated(current_email)
    THEN /\ last' = Answer(rq, 401, "")
         /\ UNCHANGED <<inflight, users, session, CODE_STORE, VERIFIED_TOKENS,
                        PENDING_EMAIL_CHANGES, now, issued, spent>>
    ELSE IF new_email = "" \/ code = <<>>
    THEN /\ last' = Answer(rq, 400, "")
         /\ UNCHANGED <<inflight, users, session, CODE_STORE, VERIFIED_TOKENS,
                        PENDING_EMAIL_CHANGES, now, issued, spent>>
    ELSE IF ~PendingAccepted(PurgedPending, current_email, new_email, code, now)
    THEN /\ CODE_STORE' = PurgedCodes
         /\ VERIFIED_TOKENS' = PurgedTokens
         /\ PENDING_EMAIL_CHANGES' = PurgedPending
         /\ last' = [Answer(rq, 400, "invalid_or_expired") EXCEPT !.purged = TRUE]
         /\ UNCHANGED <<inflight, users, session, now, issued, spent>>
    ELSE IF refusal # 0
    THEN /\ CODE_STORE' = PurgedCodes
         /\ VERIFIED_TOKENS' = PurgedTokens
         /\ PENDING_EMAIL_CHANGES' = PurgedPending
         /\ last' = [Answer(rq, refusal, IF refusal = 409 THEN "email exists" ELSE "")
                        EXCEPT !.purged = TRUE]
         /\ UNCHANGED <<inflight, users, session, now, issued, spent>>
    ELSE /\ users' = [users EXCEPT ![i].email = new_email,
                                   ![i].email_changed = TRUE]
         /\ session' = [session EXCEPT ![s] = new_email]
         /\ CODE_STORE' = PurgedCodes
         /\ VERIFIED_TOKENS' = PurgedTokens
         /\ PENDING_EMAIL_CHANGES' = Del(PurgedPending, current_email)
         /\ last' = [Answer(rq, 200, "") EXCEPT !.purged = TRUE]
         /\ UNCHANGED <<inflight, now, issued, spent>>

---------------------------------------------------------------------------
(* POST /api/logout *)

\* (mutant) signing out also withdraws the reset token of the principal
api_logout_withdrawing_token(s) ==
    /\ session' = [session EXCEPT ![s] = None]
    /\ VERIFIED_TOKENS' = Del(VERIFIED_TOKENS, session[s])
    /\ last' = Answer(Req("logout", s, ""), 200, "")
    /\ UNCHANGED <<inflight, users, CODE_STORE, PENDING_EMAIL_CHANGES, now, issued, spent>>

api_logout(s) ==
    /\ session' = [session EXCEPT ![s] = None]
    /\ last' = Answer(Req("logout", s, ""), 200, "")
    /\ UNCHANGED <<inflight, users, CODE_STORE, VERIFIED_TOKENS, PENDING_EMAIL_CHANGES,
                   now, issued, spent>>

---------------------------------------------------------------------------
(* GET /api/me *)

api_me(s) ==
    LET email == session[s]
        i == _find_user(users, email)
        rq == [Req("me", s, "") EXCEPT !.modified = NeedsCode(users, i)] IN
    IF NotAuthenticated(email)
    THEN /\ last' = Answer(rq, 401, "")
         /\ UNCHANGED <<inflight, users, session, CODE_STORE, VERIFIED_TOKENS,
                        PENDING_EMAIL_CHANGES, now, issued, spent>>
    ELSE /\ \E c \in CodeChoices(users, i) : users' = _ensure_user_code(users, i, c)
         /\ last' = Answer(rq, 200, "")
         /\ UNCHANGED <<inflight, session, CODE_STORE, VERIFIED_TOKENS,
                        PENDING_EMAIL_CHANGES, now, issued, spent>>

---------------------------------------------------------------------------
(* POST /api/update_profile *)

Fields == {"email", "name", "bio"}
ValueInputs(field) ==
    IF field = "email" THEN EmailInputs ELSE Names

\* (mutant) an update to the email the account already has is refused
EmailUpdateRefusalOfSameEmail(us, i, current_email, value) ==
    IF us[i].email_changed THEN 403
    ELSE IF _find_user(us, value) # 0 THEN 409
    ELSE 0

\* (mutant) the collision check of the email branch left out
EmailUpdateRefusalNoCollisionCheck(us, i, current_email, value) ==
    IF us[i].email_changed THEN 403 ELSE 0

\* the guards of the field == 'email' branch: 403 once the flag is set, 409 on
\* a collision with a different user, else 0
EmailUpdateRefusal(us, i, current_email, value) ==
    IF us[i].email_changed THEN 403
    ELSE IF _find_user(us, value) # 0 /\ value # current_email THEN 409
    ELSE 0

\* (mutant) the name branch without its flag check
NameUpdateRefusalUnchecked(us, i) == 0

\* the guard of the field == 'name' branch
NameUpdateRefusal(us, i) == IF us[i].name_changed THEN 403 ELSE 0

api_update_profile(s, field, value) ==
    LET current_email == session[s]
        rq == [Req("update_profile", s, "") EXCEPT !.field = field,
                                                   !.value = value]
        i == _find_user(users, current_email) IN
    IF NotAuthenticated(current_email)
    THEN /\ last' = Answer(rq, 401, "")
         /\ UNCHANGED <<inflight, users, session, CODE_STORE, VERIFIED_TOKENS,
                        PENDING_EMAIL_CHANGES, now, issued, spent>>
    ELSE IF field \notin {"email", "name"} \/ value = ""
    THEN /\ last' = Answer(rq, 400, "invalid input")
         /\ UNCHANGED <<inflight, users, session, CODE_STORE, VERIFIED_TOKENS,
                        PENDING_EMAIL_CHANGES, now, issued, spent>>
    ELSE IF i = 0
    THEN /\ last' = Answer(rq, 404, "")
         /\ UNCHANGED <<inflight, users, session, CODE_STORE, VERIFIED_TOKENS,
                        PENDING_EMAIL_CHANGES, now, issued, spent>>
    ELSE IF field = "email"
    THEN LET refusal == EmailUpdateRefusal(users, i, current_email, value) IN
         IF refusal # 0
         THEN /\ last' = Answer(rq, refusal,
                    IF refusal = 403 THEN "email already changed" ELSE "email exists")
              /\ UNCHANGED <<inflight, users, session, CODE_STORE, VERIFIED_TOKENS,
                             PENDING_EMAIL_CHANGES, now, issued, spent>>
         ELSE /\ users' = [users EXCEPT ![i].email = value,
                                        ![i].email_changed = TRUE]
              /\ session' = [session EXCEPT ![s] = value]
              /\ last' = Answer(rq, 200, "")
              /\ UNCHANGED <<inflight, CODE_STORE, VERIFIED_TOKENS, PENDING_EMAIL_CHANGES,
                             now, issued, spent>>
    ELSE IF NameUpdateRefusal(users, i) # 0
         THEN /\ last' = Answer(rq, 403, "name already changed")
              /\ UNCHANGED <<inflight, users, session, CODE_STORE, VERIFIED_TOKENS,
                             PENDING_EMAIL_CHANGES, now, issued, spent>>
         ELSE /\ users' = [users EXCEPT ![i].name = value,
                                        ![i].name_changed = TRUE]
              /\ last' = Answer(rq, 200, "")
              /\ UNCHANGED <<inflight, session, CODE_STORE, VERIFIED_TOKENS,
                             PENDING_EMAIL_CHANGES, now, issued, spent>>

---------------------------------------------------------------------------
(* POST /api/login_google *)

\* (mutant) the Google login signs the browser in without creating the account
api_login_google_without_account(s, email) ==
    /\ session' = [session EXCEPT ![s] = email]
    /\ last' = Answer(Req("login_google", s, email), 200, "")
    /\ UNCHANGED <<inflight, users, CODE_STORE, VERIFIED_TOKENS,
                   PENDING_EMAIL_CHANGES, now, issued, spent>>

\* the record api_login_google appends: email and a random password only; the
\* absent name, flags and code read as '', False and None in every handler
GoogleUser(email) ==
    [email |-> email, pass |-> generate_password_hash("token_urlsafe"), name |-> "",
     email_changed |-> FALSE, name_changed |-> FALSE, code |-> NoCode]

api_login_google(s, email) ==
    LET rq == Req("login_google", s, email) IN
    IF email = ""
    THEN /\ last' = Answer(rq, 400, "")
         /\ UNCHANGED <<inflight, users, session, CODE_STORE, VERIFIED_TOKENS,
                        PENDING_EMAIL_CHANGES, now, issued, spent>>
    ELSE /\ IF _find_user(users, email) = 0
            THEN /\ Len(users) < MaxUsers
                 /\ users' = Append(users, GoogleUser(email))
            ELSE users' = users
         /\ session' = [session EXCEPT ![s] = email]
         /\ last' = Answer(rq, 200, "")
         /\ UNCHANGED <<inflight, CODE_STORE, VERIFIED_TOKENS, PENDING_EMAIL_CHANGES,
                        now, issued, spent>>

---------------------------------------------------------------------------
(* POST /api/storage on a worker thread, in two steps: up to the duplicate
   check on the list just read, then from the append to the write *)

api_post_storage_read(w, email, password) ==
    LET rq == Req("register", None, email)
        local == users
        answered(st) == [Idle EXCEPT !.op = "register", !.email = email,
                                     !.status = st] IN
    /\ inflight[w].pc = "idle"
    /\ IF email = "" \/ password = ""
       THEN /\ last' = Answer(rq, 400, "email and pass are required")
            /\ inflight' = [inflight EXCEPT ![w] = answered(400)]
       ELSE IF AccountExists(local, email)
       THEN /\ last' = Answer(rq, 409, "account exists")
            /\ inflight' = [inflight EXCEPT ![w] = answered(409)]
       ELSE /\ inflight' = [inflight EXCEPT ![w] =
                    [Idle EXCEPT !.pc = "write", !.op = "register",
                                 !.email = email, !.password = password,
                                 !.local = local]]
            /\ last' = last
    /\ UNCHANGED <<users, session, CODE_STORE, VERIFIED_TOKENS,
                   PENDING_EMAIL_CHANGES, now, issued, spent>>

api_post_storage_write(w) ==
    LET rq == Req("register", None, inflight[w].email)
        appended == Append(inflight[w].local,
                           NewUser(inflight[w].email, inflight[w].password, "")) IN
    /\ inflight[w].pc = "write"
    /\ inflight[w].op = "register"
    /\ Len(inflight[w].local) < MaxUsers
    /\ \E c \in CodeChoices(appended, Len(appended)) :
            users' = _write_users_list(users,
                        _ensure_user_code(appended, Len(appended), c))
    /\ last' = Answer(rq, 200, "")
    /\ inflight' = [inflight EXCEPT ![w] =
            [Idle EXCEPT !.op = "register", !.email = inflight[w].email,
                         !.status = 200]]
    /\ UNCHANGED <<session, CODE_STORE, VERIFIED_TOKENS,
                   PENDING_EMAIL_CHANGES, now, issued, spent>>

---------------------------------------------------------------------------
(* POST /api/login_google on a worker thread: up to the lookup in the list
   just read, then the append and the write; the session cookie is set with
   the response *)

api_login_google_read(w, s, email) ==
    LET rq == Req("login_google", s, email)
        local == users
        answered(st) == [Idle EXCEPT !.op = "login_google", !.sess = s,
                                     !.email = email, !.status = st] IN
    /\ inflight[w].pc = "idle"
    /\ IF email = ""
       THEN /\ last' = Answer(rq, 400, "")
            /\ inflight' = [inflight EXCEPT ![w] = answered(400)]
            /\ session' = session
       ELSE IF _find_user(local, email) # 0
       THEN /\ session' = [session EXCEPT ![s] = email]
            /\ last' = Answer(rq, 200, "")
            /\ inflight' = [inflight EXCEPT ![w] = answered(200)]
       ELSE /\ inflight' = [inflight EXCEPT ![w] =
                    [Idle EXCEPT !.pc = "write", !.op = "login_google",
                                 !.sess = s, !.email = email, !.local = local]]
            /\ last' = last
            /\ session' = session
    /\ UNCHANGED <<users, CODE_STORE, VERIFIED_TOKENS, PENDING_EMAIL_CHANGES,
                   now, issued, spent>>

api_login_google_write(w) ==
    LET r == inflight[w]
        rq == Req("login_google", r.sess, r.email) IN
    /\ r.pc = "write"
    /\ r.op = "login_google"
    /\ Len(r.local) < MaxUsers
    /\ users' = _write_users_list(users, Append(r.local, GoogleUser(r.email)))
    /\ session' = [session EXCEPT ![r.sess] = r.email]
    /\ last' = Answer(rq, 200, "")
    /\ inflight' = [inflight EXCEPT ![w] =
            [Idle EXCEPT !.op = "login_google", !.sess = r.sess,
                         !.email = r.email, !.status = 200]]
    /\ UNCHANGED <<CODE_STORE, VERIFIED_TOKENS, PENDING_EMAIL_CHANGES,
                   now, issued, spent>>

---------------------------------------------------------------------------
(* POST /api/update_profile on a worker thread: up to the checks on the list
   just read, then the mutation of the local record and the write *)

api_update_profile_read(w, s, field, value) ==
    LET current_email == session[s]
        rq == [Req("update_profile", s, "") EXCEPT !.field = field,
                                                   !.value = value]
        local == users
        i == _find_user(local, current_email)
        answered(st) == [Idle EXCEPT !.op = "update_profile", !.sess = s,
                                     !.current = current_email, !.field = field,
                                     !.email = value, !.status = st]
        refusal == IF NotAuthenticated(current_email) THEN 401
                   ELSE IF field \notin {"email", "name"} \/ value = "" THEN 400
                   ELSE IF i = 0 THEN 404
                   ELSE IF field = "email"
                        THEN EmailUpdateRefusal(local, i, current_email, value)
                        ELSE NameUpdateRefusal(local, i) IN
    /\ inflight[w].pc = "idle"
    /\ IF refusal # 0
       THEN /\ last' = Answer(rq, refusal, "")
            /\ inflight' = [inflight EXCEPT ![w] = answered(refusal)]
       ELSE /\ inflight' = [inflight EXCEPT ![w] =
                    [answered(0) EXCEPT !.pc = "write", !.local = local]]
            /\ last' = last
    /\ UNCHANGED <<users, session, CODE_STORE, VERIFIED_TOKENS,
                   PENDING_EMAIL_CHANGES, now, issued, spent>>

api_update_profile_write(w) ==
    LET r == inflight[w]
        rq == [Req("update_profile", r.sess, "") EXCEPT !.field = r.field,
                                                        !.value = r.email]
        i == _find_user(r.local, r.current) IN
    /\ r.pc = "write"
    /\ r.op = "update_profile"
    /\ IF r.field = "email"
       THEN /\ users' = _write_users_list(users,
                    [r.local EXCEPT ![i].email = r.email,
                                    ![i].email_changed = TRUE])
            /\ session' = [session EXCEPT ![r.sess] = r.email]
       ELSE /\ users' = _write_users_list(users,
                    [r.local EXCEPT ![i].name = r.email,
                                    ![i].name_changed = TRUE])
            /\ session' = session
    /\ last' = Answer(rq, 200, "")
    /\ inflight' = [inflight EXCEPT ![w] =
            [r EXCEPT !.pc = "idle", !.local = <<>>, !.status = 200]]
    /\ UNCHANGED <<CODE_STORE, VERIFIED_TOKENS, PENDING_EMAIL_CHANGES,
                   now, issued, spent>>

---------------------------------------------------------------------------
(* POST /api/confirm_email_change on a worker thread: up to the checks on the
   list just read, then the mutation, the write and the cleanup *)

api_confirm_email_change_read(w, s, new_email, code) ==
    LET current_email == session[s]
        rq == [Req("confirm_email_change", s, new_email) EXCEPT !.code = code]
        local == users
        answered(st) == [Idle EXCEPT !.op = "confirm_email_change", !.sess = s,
                                     !.current = current_email,
                                     !.email = new_email, !.status = st]
        early == IF NotAuthenticated(current_email) THEN 401
                 ELSE IF new_email = "" \/ code = <<>> THEN 400
                 ELSE 0
        accepted == PendingAccepted(PurgedPending, current_email, new_email,
                                    code, now)
        refusal == ConfirmRefusal(local, current_email, new_email) IN
    /\ inflight[w].pc = "idle"
    /\ IF early # 0
       THEN /\ last' = Answer(rq, early, "")
            /\ inflight' = [inflight EXCEPT ![w] = answered(early)]
            /\ UNCHANGED <<CODE_STORE, VERIFIED_TOKENS, PENDING_EMAIL_CHANGES>>
       ELSE /\ CODE_STORE' = PurgedCodes
            /\ VERIFIED_TOKENS' = PurgedTokens
            /\ PENDING_EMAIL_CHANGES' = PurgedPending
            /\ IF ~accepted
               THEN /\ last' = [Answer(rq, 400, "invalid_or_expired")
                                    EXCEPT !.purged = TRUE]
                    /\ inflight' = [inflight EXCEPT ![w] = answered(400)]
               ELSE IF refusal # 0
               THEN /\ last' = [Answer(rq, refusal, "") EXCEPT !.purged = TRUE]
                    /\ inflight' = [inflight EXCEPT ![w] = answered(refusal)]
               ELSE /\ inflight' = [inflight EXCEPT ![w] =
                            [answered(0) EXCEPT !.pc = "write", !.local = local]]
                    /\ last' = last
    /\ UNCHANGED <<users, session, now, issued, spent>>

api_confirm_email_change_write(w) ==
    LET r == inflight[w]
        rq == [Req("confirm_email_change", r.sess, r.email) EXCEPT !.purged = TRUE]
        i == _find_user(r.local, r.current) IN
    /\ r.pc = "write"
    /\ r.op = "confirm_email_change"
    /\ users' = _write_users_list(users,
            [r.local EXCEPT ![i].email = r.email, ![i].email_changed = TRUE])
    /\ session' = [session EXCEPT ![r.sess] = r.email]
    /\ PENDING_EMAIL_CHANGES' = Del(PENDING_EMAIL_CHANGES, r.current)
    /\ last' = Answer(rq, 200, "")
    /\ inflight' = [inflight EXCEPT ![w] =
            [r EXCEPT !.pc = "idle", !.local = <<>>, !.status = 200]]
    /\ UNCHANGED <<CODE_STORE, VERIFIED_TOKENS, now, issued, spent>>

---------------------------------------------------------------------------
(* The clock: time passes between requests, by a whole TTL or one second more *)

Tick ==
    /\ now < MaxWindows * CODE_TTL_SECONDS
    /\ \E d \in {CODE_TTL_SECONDS, CODE_TTL_SECONDS + 1} : now' = now + d
    /\ last' = Req("tick", None, "")
    /\ UNCHANGED <<inflight, users, session, CODE_STORE, VERIFIED_TOKENS,
                   PENDING_EMAIL_CHANGES, issued, spent>>

---------------------------------------------------------------------------

(***************************************************************************)
(* Specifications.  Requests are served one at a time.  Each specification *)
(* lets the clients send the requests of one part of the API, with inputs  *)
(* from the small alphabets above.                                         *)
(***************************************************************************)

\* registration, login and profile: no verification codes, the clock stands
Next ==
    \/ \E e \in EmailInputs, p \in Passwords : api_post_storage(e, p, "")
    \/ \E s \in Sessions :
        \/ \E e \in Emails, p \in Passwords : api_login(s, e, p)
        \/ api_logout(s)
        \/ api_me(s)
        \/ \E v \in Names : api_update_profile(s, "name", v)
        \/ \E e \in Emails : api_login_google(s, e)

Spec == Init /\ [][Next]_vars

\* everything that creates a record or writes an email
NextEmail ==
    \/ \E e \in Emails : api_post_storage(e, "pw1", "")
    \/ \E s \in Sessions :
        \/ \E e \in Emails : api_login(s, e, "pw1")
        \/ \E e \in Emails : api_login_google(s, e)
        \/ \E v \in Emails : api_update_profile(s, "email", v)
        \/ \E e \in Emails : api_request_email_change(s, e, Code1)
        \/ \E e \in Emails : api_confirm_email_change(s, e, Code1)

SpecEmail == Init /\ [][NextEmail]_vars

\* every handler that writes data.json, from one client: a client can become
\* any principal through login_google, so one client reaches every user list
\* that several clients reach
NextWriters ==
    \/ \E e \in Emails : api_post_storage(e, "pw1", "")
    \/ \E e \in Emails : api_login("s1", e, "pw1")
    \/ \E e \in Emails : api_login_google("s1", e)
    \/ api_me("s1")
    \/ \E v \in Emails : api_update_profile("s1", "email", v)
    \/ \E e \in Emails : api_request_email_change("s1", e, Code1)
    \/ \E e \in Emails : api_confirm_email_change("s1", e, Code1)
    \/ api_request_code("a@x.com", Code1)
    \/ api_verify_code("s1", "a@x.com", Code1)
    \/ \E t \in TokenInputs \ {NoToken} : api_reset_password("a@x.com", "pw2", t)

SpecWriters == Init /\ [][NextWriters]_vars

\* one client and the account a@x.com through every request that rewrites
\* records, with process starts in between
NextCodes ==
    \/ api_post_storage("a@x.com", "pw1", "")
    \/ \E e \in Emails : api_login_google("s1", e)
    \/ api_login("s1", "a@x.com", "pw2")
    \/ api_me("s1")
    \/ api_update_profile("s1", "email", "b@x.com")
    \/ api_request_email_change("s1", "b@x.com", Code1)
    \/ api_confirm_email_change("s1", "b@x.com", Code1)
    \/ api_request_code("a@x.com", Code1)
    \/ api_verify_code("s1", "a@x.com", Code1)
    \/ \E t \in TokenInputs \ {NoToken} : api_reset_password("a@x.com", "pw2", t)
    \/ _backfill_all_codes

SpecCodes == Init /\ [][NextCodes]_vars

\* the account a@x.com, its reset codes and tokens, and two browsers that
\* sign in by code, ask for an email change and sign out
NextLogout ==
    \/ api_post_storage("a@x.com", "pw1", "")
    \/ api_request_code("a@x.com", Code1)
    \/ \E s \in Sessions : api_verify_code(s, "a@x.com", Code1)
    \/ \E s \in Sessions : api_logout(s)
    \/ \E s \in Sessions : api_request_email_change(s, "b@x.com", Code1)
    \/ \E t \in TokenInputs \ {NoToken} : api_reset_password("a@x.com", "pw2", t)
    \/ Tick

SpecLogout == Init /\ [][NextLogout]_vars

\* the session-protected routes, with valid and invalid bodies, from a browser
\* that signs in and out and from one that never signs in
NextGate ==
    \/ api_post_storage("a@x.com", "pw1", "")
    \/ api_request_code("a@x.com", Code1)
    \/ api_login("s1", "a@x.com", "pw1")
    \/ api_logout("s1")
    \/ \E s \in Sessions : api_me(s)
    \/ \E s \in Sessions, f \in Fields : \E v \in ValueInputs(f) :
            api_update_profile(s, f, v)
    \/ \E s \in Sessions, e \in {"b@x.com", ""}, c \in {Code1, <<>>} :
            api_request_email_change(s, e, c)
    \/ \E s \in Sessions, e \in {"b@x.com", ""}, c \in {Code1, <<>>} :
            api_confirm_email_change(s, e, c)

SpecGate == Init /\ [][NextGate]_vars

\* registrations served by two worker threads whose file reads and writes
\* interleave, and a browser that logs in afterwards
NextRace ==
    \/ \E w \in Workers, e \in Emails : api_post_storage_read(w, e, "pw1")
    \/ \E w \in Workers : api_post_storage_write(w)
    \/ \E e \in Emails : api_login("s1", e, "pw1")
    \/ api_logout("s1")

SpecRace == Init /\ [][NextRace]_vars

\* reset codes requested again and again for the same emails, with either
\* code, verified with either code, while time passes
NextOverwrite ==
    \/ \E e \in Emails, c \in {Code1, Code2} : api_request_code(e, c)
    \/ \E e \in Emails, c \in {Code1, Code2} : api_verify_code("s1", e, c)
    \/ Tick

SpecOverwrite == Init /\ [][NextOverwrite]_vars

\* two browsers and every way a session gets a principal: password login,
\* Google login, a verified code for b@x.com, and the two email changes
NextSessions ==
    \/ \E e \in Emails : api_post_storage(e, "pw1", "")
    \/ \E s \in Sessions, e \in Emails : api_login(s, e, "pw1")
    \/ \E e \in Emails : api_login_google("s1", e)
    \/ \E s \in Sessions, v \in Emails : api_update_profile(s, "email", v)
    \/ api_request_email_change("s1", "b@x.com", Code1)
    \/ api_confirm_email_change("s1", "b@x.com", Code1)
    \/ api_request_code("b@x.com", Code1)
    \/ api_verify_code("s2", "b@x.com", Code1)

SpecSessions == Init /\ [][NextSessions]_vars

\* two browsers, each served by a thread of its own, whose registrations,
\* Google logins and email changes interleave between file read and file
\* write; b@x.com is the email they contend for
NextInterleaved ==
    \/ \E w \in Workers, e \in Emails : api_post_storage_read(w, e, "pw1")
    \/ \E w \in Workers : api_post_storage_write(w)
    \/ \E p \in {<<"w1", "s1">>, <<"w2", "s2">>}, e \in Emails :
            api_login_google_read(p[1], p[2], e)
    \/ \E w \in Workers : api_login_google_write(w)
    \/ \E p \in {<<"w1", "s1">>, <<"w2", "s2">>} :
            api_update_profile_read(p[1], p[2], "email", "b@x.com")
    \/ \E w \in Workers : api_update_profile_write(w)
    \/ api_request_email_change("s1", "b@x.com", Code1)
    \/ api_confirm_email_change_read("w1", "s1", "b@x.com", Code1)
    \/ api_confirm_email_change_write("w1")

SpecInterleaved == Init /\ [][NextInterleaved]_vars

\* one browser that registers or signs in with Google, signs out, and keeps
\* asking /api/me (the page does so on every load); process starts happen at
\* the operator's will, so no fairness is claimed for them
NextGoogle ==
    \/ \E e \in Emails : api_post_storage(e, "pw1", "")
    \/ \E e \in Emails : api_login_google("s1", e)
    \/ \E e \in Emails : api_login("s1", e, "pw1")
    \/ api_logout("s1")
    \/ api_me("s1")
    \/ _backfill_all_codes

SpecGoogleFair ==
    /\ Init
    /\ [][NextGoogle]_vars
    /\ WF_vars(api_me("s1"))
    /\ WF_vars(\E e \in Emails : api_login("s1", e, "pw1"))

\* the password-reset flow: request_code, verify_code, reset_password
NextReset ==
    \/ \E e \in Emails : api_post_storage(e, "pw1", "")
    \/ \E e \in Emails : api_request_code(e, Code1)
    \/ \E e \in Emails, c \in {Code1, Code2} : api_verify_code("s1", e, c)
    \/ \E e \in Emails, t \in TokenInputs \ {NoToken} : api_reset_password(e, "pw2", t)
    \/ Tick

SpecReset == Init /\ [][NextReset]_vars

\* the three transient stores and the clock: one account, one client
NextStores ==
    \/ api_post_storage("a@x.com", "pw1", "")
    \/ api_request_code("a@x.com", Code1)
    \/ api_verify_code("s1", "a@x.com", Code1)
    \/ \E t \in TokenInputs \ {NoToken} : api_reset_password("a@x.com", "pw2", t)
    \/ \E e \in Emails : api_request_email_change("s1", e, Code1)
    \/ \E e \in Emails : api_confirm_email_change("s1", e, Code1)
    \/ Tick

SpecStores == Init /\ [][NextStores]_vars

---------------------------------------------------------------------------
(* Properties *)

Records == 1..Len(users)

\* C1: once email_changed is true for a record, no later request changes that
\* record's email, and email_changed never returns to false.
EmailChangedAtMostOnce ==
    [][\A i \in Records :
          users[i].email_changed =>
              /\ i <= Len(users')
              /\ users'[i].email = users[i].email
              /\ users'[i].email_changed]_vars

\* C2: no two records of the persisted list have the same email.
EmailsUnique ==
    \A i, j \in Records : i # j => users[i].email # users[j].email

\* C2 witness: two accounts, one of which has changed its email and had its
\* password reset, and an email update refused because the address is taken
EmailCollisionRefused ==
    /\ Len(users) = 2
    /\ \E i \in Records :
        /\ users[i].email_changed
        /\ users[i].pass = generate_password_hash("pw2")
    /\ last.op \in {"update_profile", "confirm_email_change"}
    /\ last.status = 409

\* the token store holds token t for email e, not yet expired
HoldsToken(e, t) ==
    /\ e \in DOMAIN VERIFIED_TOKENS
    /\ VERIFIED_TOKENS[e].token = t
    /\ VERIFIED_TOKENS[e].exp >= now

\* C3: a stored password changes only in a successful reset_password that
\* presents, for the record's own email, the unexpired token the token store
\* holds for that email, a token that verify_code issued for that very email;
\* a reset_password whose token is missing, mismatched or expired is refused
\* and leaves the user list as it was.
PasswordOnlyByValidReset ==
    [][/\ \A i \in Records :
         (i <= Len(users') /\ users'[i].pass # users[i].pass) =>
             /\ last'.op = "reset_password"
             /\ last'.status = 200
             /\ last'.email = users[i].email
       /\ (last'.op = "reset_password" /\ last'.status = 200) =>
             /\ HoldsToken(last'.email, last'.token)
             /\ last'.token \in 1..Len(issued)
             /\ issued[last'.token] = last'.email
       /\ (last'.op = "reset_password" /\ ~HoldsToken(last'.email, last'.token)) =>
             /\ last'.status # 200
             /\ users' = users]_vars

\* C3 witness: a reset has just replaced the password of an account while a
\* token issued for the other email exists
PasswordResetDone ==
    /\ last.op = "reset_password"
    /\ last.status = 200
    /\ \E i \in Records :
        /\ users[i].email = last.email
        /\ users[i].pass = generate_password_hash("pw2")
    /\ \E t \in 1..Len(issued) : issued[t] # last.email

\* C4: after a successful reset_password the token store has no entry for that
\* email, and a reset_password presenting a token that an earlier reset has
\* consumed is refused and leaves the user list as it was.
TokenSingleUse ==
    [][/\ (last'.op = "reset_password" /\ last'.status = 200) =>
             last'.email \notin DOMAIN VERIFIED_TOKENS'
       /\ (last'.op = "reset_password" /\ last'.token \in spent) =>
             /\ last'.status # 200
             /\ users' = users]_vars

\* C4 witness: the same email and token were presented again and refused
SpentTokenRefused ==
    /\ last.op = "reset_password"
    /\ last.token \in spent
    /\ issued[last.token] = last.email
    /\ last.status = 400

\* C5: a successful verify_code removes the code entry of that email; a
\* verify_code for an email without an entry is refused and issues no token;
\* and only request_code for that email creates an entry.
CodeSingleUse ==
    [][/\ (last'.op = "verify_code" /\ last'.status = 200) =>
             last'.email \notin DOMAIN CODE_STORE'
       /\ (last'.op = "verify_code" /\ last'.email \notin DOMAIN CODE_STORE) =>
             /\ last'.status = 400
             /\ issued' = issued
             /\ DOMAIN VERIFIED_TOKENS' \subseteq DOMAIN VERIFIED_TOKENS
             /\ session' = session
       /\ \A e \in Emails :
             (e \notin DOMAIN CODE_STORE /\ e \in DOMAIN CODE_STORE') =>
                 (last'.op = "request_code" /\ last'.email = e)]_vars

\* C5 witness: the code that earned this email a token is presented again, in
\* time, and refused
UsedCodeRefused ==
    /\ last.op = "verify_code"
    /\ last.code = Code1
    /\ last.status = 400
    /\ last.email \notin DOMAIN CODE_STORE
    /\ last.email \in DOMAIN VERIFIED_TOKENS
    /\ now = 0

\* C6: an entry whose expiry lies before the current time is invisible:
\* verify_code, reset_password and confirm_email_change on such an entry are
\* refused and change neither the user list nor any session.
ExpiredEntriesInvisible ==
    [][/\ (/\ last'.op = "verify_code"
           /\ last'.email \in DOMAIN CODE_STORE
           /\ CODE_STORE[last'.email].exp < now) =>
             (last'.status # 200 /\ users' = users /\ session' = session
                 /\ issued' = issued)
       /\ (/\ last'.op = "reset_password"
           /\ last'.email \in DOMAIN VERIFIED_TOKENS
           /\ VERIFIED_TOKENS[last'.email].exp < now) =>
             (last'.status # 200 /\ users' = users /\ session' = session)
       /\ (/\ last'.op = "confirm_email_change"
           /\ session[last'.sess] \in DOMAIN PENDING_EMAIL_CHANGES
           /\ PENDING_EMAIL_CHANGES[session[last'.sess]].exp < now) =>
             (last'.status # 200 /\ users' = users /\ session' = session)]_vars

\* C6 witness: a confirmation with the right new email and code, refused
\* because the pending entry has expired, the address being still free
ExpiredConfirmRefused ==
    /\ last.op = "confirm_email_change"
    /\ last.status = 400
    /\ session[last.sess] \in DOMAIN PENDING_EMAIL_CHANGES
    /\ PENDING_EMAIL_CHANGES[session[last.sess]].new_email = last.email
    /\ PENDING_EMAIL_CHANGES[session[last.sess]].code = last.code
    /\ PENDING_EMAIL_CHANGES[session[last.sess]].exp < now
    /\ _find_user(users, last.email) = 0
    /\ _find_user(users, session[last.sess]) # 0

\* C7: after a request that ran the purge, none of the three stores holds an
\* entry whose expiry is earlier than the current time.
PurgeCoversAllStores ==
    last.purged =>
        /\ \A k \in DOMAIN CODE_STORE : CODE_STORE[k].exp >= now
        /\ \A k \in DOMAIN VERIFIED_TOKENS : VERIFIED_TOKENS[k].exp >= now
        /\ \A k \in DOMAIN PENDING_EMAIL_CHANGES : PENDING_EMAIL_CHANGES[k].exp >= now

\* C8: registering an email that is already registered answers 409 and leaves
\* the user list as it was, with exactly one record for that email.
RegisterConflictChangesNothing ==
    [][(last'.op = "register" /\ (\E i \in Records : users[i].email = last'.email)) =>
            /\ last'.status = 409
            /\ users' = users
            /\ Cardinality({i \in 1..Len(users') : users'[i].email = last'.email}) = 1]_vars

\* C8 witness: a second registration was refused for an account that had
\* changed its name in between
RegisterRefused ==
    /\ last.op = "register"
    /\ last.status = 409
    /\ \E i \in Records :
        /\ users[i].email = last.email
        /\ users[i].name_changed
        /\ users[i].code # NoCode

\* C9: once name_changed is true for a record, its name stays and the flag
\* stays true, and every update_profile with field=name from a session of that
\* account answers 403 'name already changed'.
NameChangedAtMostOnce ==
    [][\A i \in Records :
          users[i].name_changed =>
              /\ i <= Len(users')
              /\ users'[i].name = users[i].name
              /\ users'[i].name_changed
              /\ (/\ last'.op = "update_profile"
                  /\ last'.field = "name"
                  /\ session[last'.sess] = users[i].email) =>
                     (last'.status = 403 /\ last'.error = "name already changed")]_vars

\* C9 witness: a second rename, with another name, was refused
SecondRenameRefused ==
    /\ last.op = "update_profile"
    /\ last.field = "name"
    /\ last.status = 403
    /\ \E i \in Records :
        /\ users[i].email = session[last.sess]
        /\ users[i].name_changed
        /\ users[i].name \in Names

\* C10: any two distinct records that both have a code have different codes.
CodesUnique ==
    \A i, j \in Records :
        (i # j /\ users[i].code # NoCode /\ users[j].code # NoCode) =>
            users[i].code # users[j].code

\* C10 witness: two records with codes, the second one backfilled by me or
\* login for an account that login_google created
TwoCodesAssigned ==
    /\ Len(users) = 2
    /\ \A i \in Records : users[i].code # NoCode
    /\ \E i \in Records : users[i].pass = generate_password_hash("token_urlsafe")
    /\ last.op \in {"me", "login"}

\* C11: a record's code never changes once it is assigned, whatever request
\* or process start comes next, and a step that would assign codes (login, me,
\* the startup backfill) changes nothing and reports no modification when the
\* records it looks at already have one.
CodeImmutable ==
    [][/\ \A i \in Records :
            users[i].code # NoCode =>
                i <= Len(users') /\ users'[i].code = users[i].code
       /\ (last'.op = "backfill" /\ \A i \in Records : users[i].code # NoCode) =>
            (users' = users /\ ~last'.modified)
       /\ (/\ last'.op \in {"login", "me"}
           /\ \A i \in Records :
                users[i].email \in {last'.email, session[last'.sess]} =>
                    users[i].code # NoCode) =>
            ~last'.modified]_vars

\* a process start found every record already coded, a second backfill
BackfillRepeated ==
    /\ last.op = "backfill"
    /\ ~last.modified
    /\ Len(users) > 1
    /\ \A i \in Records : users[i].code # NoCode

\* C12: every record ever created, by registration or by login_google,
\* eventually carries a non-empty code.
EveryRecordEventuallyCoded ==
    \A i \in 1..MaxUsers :
        (Len(users) >= i) ~> (Len(users) >= i /\ users[i].code # NoCode)

\* C13: a login whose password is the one the account was registered with
\* answers 200 and makes that email the principal of the session; a login for
\* an email with no record, or with another password than the stored one,
\* answers 401 and leaves every session as it was.
LoginOnlyOnMatch ==
    [][last'.op = "login" =>
        LET e == last'.email
            known == {i \in Records : users[i].email = e}
            stored == generate_password_hash(last'.password) IN
        /\ (\E i \in known : users[i].pass = stored) =>
                /\ last'.status = 200
                /\ session' = [session EXCEPT ![last'.sess] = e]
        /\ (known = {} \/ \E i \in known : users[i].pass # stored) =>
                /\ last'.status = 401
                /\ session' = session]_vars

\* a wrong password for an existing account was refused while the session
\* was signed in as the other account
LoginRefusedKeepsPrincipal ==
    /\ last.op = "login"
    /\ last.status = 401
    /\ \E i \in Records : users[i].email = last.email
    /\ session[last.sess] \in Emails \ {last.email}

\* C14: a confirmation whose new email and code match the unexpired pending
\* entry of the principal, while some record already carries the new email,
\* answers 409 and leaves every user record and every session unchanged.
ConfirmConflictChangesNothing ==
    [][(/\ last'.op = "confirm_email_change"
        /\ session[last'.sess] \in DOMAIN PENDING_EMAIL_CHANGES
        /\ LET entry == PENDING_EMAIL_CHANGES[session[last'.sess]] IN
            /\ entry.new_email = last'.email
            /\ entry.code = last'.code
            /\ entry.exp >= now
        /\ \E i \in Records : users[i].email = last'.email) =>
            /\ last'.status = 409
            /\ users' = users
            /\ session' = session]_vars

\* the new email was registered between the request and the confirmation:
\* the confirmation was refused with the matching entry still pending
ConfirmConflictRefused ==
    /\ last.op = "confirm_email_change"
    /\ last.status = 409
    /\ session[last.sess] \in DOMAIN PENDING_EMAIL_CHANGES
    /\ PENDING_EMAIL_CHANGES[session[last.sess]].new_email = last.email
    /\ PENDING_EMAIL_CHANGES[session[last.sess]].code = last.code
    /\ Len(users) > 1

\* C15: a logout clears the principal of its own session and changes nothing
\* else (user list, code store, token store, pending email changes, the other
\* sessions); reset_password accepts the unexpired token the token store holds
\* for a registered email whatever the sessions are, signed out included.
LogoutChangesOnlyPrincipal ==
    [][/\ last'.op = "logout" =>
            /\ session' = [session EXCEPT ![last'.sess] = None]
            /\ users' = users
            /\ CODE_STORE' = CODE_STORE
            /\ VERIFIED_TOKENS' = VERIFIED_TOKENS
            /\ PENDING_EMAIL_CHANGES' = PENDING_EMAIL_CHANGES
       /\ (/\ last'.op = "reset_password"
           /\ HoldsToken(last'.email, last'.token)
           /\ \E i \in Records : users[i].email = last'.email) =>
            last'.status = 200]_vars

\* a token issued to a signed-in browser was accepted after every browser
\* had signed out
TokenAcceptedAfterLogout ==
    /\ last.op = "reset_password"
    /\ last.status = 200
    /\ last.token \in spent
    /\ \A s \in Sessions : session[s] = None

\* C16: me, update_profile, request_email_change and confirm_email_change,
\* served for a session without principal, answer 401 and leave the user
\* list, the code, token and pending stores and every session unchanged.
UnauthenticatedChangesNothing ==
    [][(/\ last'.op \in {"me", "update_profile", "request_email_change",
                          "confirm_email_change"}
        /\ session[last'.sess] = None) =>
            /\ last'.status = 401
            /\ users' = users
            /\ CODE_STORE' = CODE_STORE
            /\ VERIFIED_TOKENS' = VERIFIED_TOKENS
            /\ PENDING_EMAIL_CHANGES' = PENDING_EMAIL_CHANGES
            /\ session' = session]_vars

\* a browser that is not signed in presented the new email and code another
\* browser has pending, and was answered 401
UnauthenticatedConfirmRefused ==
    /\ last.op = "confirm_email_change"
    /\ last.status = 401
    /\ session[last.sess] = None
    /\ \E k \in DOMAIN PENDING_EMAIL_CHANGES :
            /\ PENDING_EMAIL_CHANGES[k].new_email = last.email
            /\ PENDING_EMAIL_CHANGES[k].code = last.code
    /\ DOMAIN CODE_STORE # {}

\* C17: the write of a registration replaces the file with the list its thread
\* read, plus its own record, whatever another thread wrote in between; so
\* two registrations for different emails can both answer 200 and leave one
\* record (RegistrationLost is reachable).
LastWriterWins ==
    [][\A w \in Workers :
        (inflight[w].pc = "write" /\ inflight'[w].pc = "idle") =>
            /\ last'.status = 200
            /\ Len(users') = Len(inflight[w].local) + 1
            /\ SubSeq(users', 1, Len(inflight[w].local)) = inflight[w].local
            /\ users'[Len(users')].email = inflight[w].email]_vars

\* both threads answered ok to registrations for different emails, and the
\* file holds one record: that of the thread that wrote last
RegistrationLost ==
    /\ \A w \in Workers : inflight[w].pc = "idle" /\ inflight[w].status = 200
    /\ inflight["w1"].email # inflight["w2"].email
    /\ Len(users) = 1
    /\ last.op = "register"
    /\ users[1].email = last.email

\* C18: an accepted request_code leaves, for its email, exactly the code it
\* carried with a fresh expiry, whatever was pending before; verify_code
\* succeeds exactly when its code is the pending one and has not expired, so
\* a code that a later request replaced is refused and the replacing one is
\* accepted within the TTL.  (The code store is keyed by email: it holds at
\* most one pending code per email.)
PendingCodeOverwritten ==
    [][/\ (last'.op = "request_code" /\ last'.status = 200) =>
            /\ last'.email \in DOMAIN CODE_STORE'
            /\ CODE_STORE'[last'.email] =
                    [code |-> last'.code, exp |-> now + CODE_TTL_SECONDS]
       /\ last'.op = "verify_code" =>
            /\ last'.status \in {200, 400}
            /\ last'.status = 200 <=>
                    /\ last'.email \in DOMAIN CODE_STORE
                    /\ CODE_STORE[last'.email].code = last'.code
                    /\ CODE_STORE[last'.email].exp >= now]_vars

\* the first code was presented while the second one was pending and
\* unexpired for that email, and was refused
ReplacedCodeRefused ==
    /\ last.op = "verify_code"
    /\ last.status = 400
    /\ last.code = Code1
    /\ last.email \in DOMAIN CODE_STORE
    /\ CODE_STORE[last.email].code = Code2
    /\ CODE_STORE[last.email].exp >= now

\* C19: a login answered 401 leaves the persisted user list exactly as it
\* was, accounts without a code included.
FailedLoginWritesNothing ==
    [][(last'.op = "login" /\ last'.status = 401) => users' = users]_vars

\* C20 as stated: whenever a session holds a principal, the user list has a
\* record with that email.
PrincipalHasRecord ==
    \A s \in Sessions :
        session[s] # None => \E i \in Records : users[i].email = session[s]

\* C20: whenever login, login_google, update_profile or confirm_email_change
\* gives a session a new principal, the user list written by that request
\* has a record with that email.  (verify_code sets the principal without
\* looking at the user list, and an email change leaves the principals of
\* the account's other sessions at the old email.)
PrincipalSetForRecord ==
    [][\A s \in Sessions :
        (/\ session'[s] # session[s]
         /\ session'[s] # None
         /\ last'.op # "verify_code") =>
            \E i \in 1..Len(users') : users'[i].email = session'[s]]_vars

\* an email change in one browser succeeded and moved that browser to the
\* new email, while the account's other browser still holds the old email,
\* which no record carries any more
PrincipalLeftBehind ==
    /\ last.op \in {"update_profile", "confirm_email_change"}
    /\ last.status = 200
    /\ \E i \in Records : users[i].email = session[last.sess]
    /\ \E s \in Sessions \ {last.sess} :
            /\ session[s] # None
            /\ \A i \in Records : users[i].email # session[s]

\* C21: with register, login_google, update_profile and confirm_email_change
\* interleaving between their file read and their file write, every state of
\* the persisted user list has pairwise distinct emails.
PersistedEmailsDistinct ==
    Cardinality({users[i].email : i \in Records}) = Len(users)

\* an email change and a registration for the same email both passed their
\* collision checks on the lists they had read, and both answered ok
EmailClaimedTwice ==
    /\ \A w \in Workers : inflight[w].pc = "idle" /\ inflight[w].status = 200
    /\ inflight["w1"].email = inflight["w2"].email
    /\ {inflight[w].op : w \in Workers} \in
            {{"register", "update_profile"}, {"register", "confirm_email_change"}}
    /\ users # <<>>

\* C22: update_profile with field=email and the account's current email as
\* value, on an account whose email_changed is false, answers 200, leaves
\* the stored email and every session unchanged and sets email_changed; the
\* flag never returns to false, and every update_profile with field=email
\* for an account whose flag is set answers 403 and changes no record.
SameEmailUsesUpTheChange ==
    [][/\ \A i \in Records :
            (/\ last'.op = "update_profile"
             /\ last'.field = "email"
             /\ users[i].email = session[last'.sess]
             /\ last'.value = users[i].email
             /\ ~users[i].email_changed) =>
                /\ last'.status = 200
                /\ users' = [users EXCEPT ![i].email_changed = TRUE]
                /\ session' = session
       /\ \A i \in Records :
            (/\ last'.op = "update_profile"
             /\ last'.field = "email"
             /\ last'.value # ""
             /\ users[i].email = session[last'.sess]
             /\ users[i].email_changed) =>
                /\ last'.status = 403
                /\ users' = users
       /\ \A i \in Records :
            users[i].email_changed =>
                i <= Len(users') /\ users'[i].email_changed]_vars

\* the only account there is, signed in from both browsers, updated its email
\* to the email it already had: ok, the email and both principals as before,
\* the flag set
SameEmailUpdateDone ==
    /\ last.op = "update_profile"
    /\ last.field = "email"
    /\ last.status = 200
    /\ Len(users) = 1
    /\ users[1].email = last.value
    /\ users[1].email_changed
    /\ \A s \in Sessions : session[s] = last.value

=============================================================================
